---- MODULE Spec2Model ----
(***************************************************************************)
(* Linting rules of pynblint (src/pynblint/nb_linting.py).                 *)
(*                                                                         *)
(* A notebook is the list nb_dict["cells"]; a cell is a record             *)
(*   cell_type       "code", "markdown" or "raw"                           *)
(*   execution_count None, or Some(n) (only code cells carry the key; the   *)
(*                   rules read it on code cells only)                     *)
(*   source          the cell's text, a sequence of characters             *)
(* Python's None is the empty tuple and an integer n the 1-tuple <<n>>, so *)
(* that `counter == cell["execution_count"]` is an equality TLC can take   *)
(* between an integer and None.                                            *)
(***************************************************************************)
EXTENDS Integers, Sequences, FiniteSets, TLC

VARIABLES
    name,                     \* notebook.path.name, a sequence of characters
    cells,                    \* nb_dict["cells"] of the notebook under analysis
    pc,                       \* position of the running rule
    idx,                      \* 1-based position of the next cell of a for loop
    counter,                  \* has_linear_execution_order: expected count
    correct_exec,             \* has_linear_execution_order: result so far
    program,                  \* notebook.script.split("\n"): the lines of the script
    found_first_cell,         \* are_imports_in_first_cell: first marker seen
    second_cell_not_reached,  \* are_imports_in_first_cell: second marker not seen
    correct_position,         \* are_imports_in_first_cell: result so far
    cell,                     \* are_imports_in_first_cell: accumulated lines
    bottom_size,              \* the bottom_size argument of the bottom rules
    cell_list,                \* _extract_bottom_cells_of_code: cells collected
    md_first_cells,           \* get_bottom_md_lines_ratio: lines of the leading part
    md_bottom_cells,          \* get_bottom_md_lines_ratio: lines of the bottom part
    cell_counter,             \* get_bottom_md_lines_ratio: position of the cell
    returned,                 \* rule key -> value returned, for the rules called so far
    options,                  \* NotebookLinter.options
    results,                  \* NotebookLinter.results (None until assigned)
    reports                   \* what the caller got from each analysis so far

\* `counter` is also the local of that name in _extract_bottom_cells_of_code.
orderVars == <<counter, correct_exec>>
importVars == <<found_first_cell, second_cell_not_reached, correct_position, cell>>
bottomVars == <<bottom_size, cell_list, md_first_cells, md_bottom_cells, cell_counter>>

linterVars == <<options, results, reports>>

vars == <<name, cells, program, pc, idx, orderVars, importVars, bottomVars, returned,
          linterVars>>

None == <<>>
Some(n) == <<n>>

\* Bounds of the model.
MaxCells == 4
MaxExec == 3
MaxLines == 5
MaxBottomCells == 5
MaxBottomSize == 1
MaxLintCells == 2
MaxLintLines == 2
MaxNameLen == 3
MaxRuns == 3

----------------------------------------------------------------------------
(* Inputs *)

Cell(t, ec, src) == [cell_type |-> t, execution_count |-> ec, source |-> src]

ExecCounts == {None} \cup {Some(n) : n \in 1..MaxExec}

\* No rule has returned yet: the function with the empty domain.
NoReturn == <<>>

\* `returned` once the rule filed under `key` has returned `v`.
Return(key, v) == returned @@ (key :> v)

HasReturned(key) == key \in DOMAIN returned

Range(f) == {f[k] : k \in DOMAIN f}

SeqsUpTo(S, n) == UNION {[1..k -> S] : k \in 0..n}

\* Cells of the execution-order scan: code cells with every execution count
\* and with empty or non-empty source; a markdown cell with text and a raw
\* cell without.
OrderCells ==
    {Cell("code", ec, src) : ec \in ExecCounts, src \in {<<>>, <<"a">>}}
        \cup {Cell("markdown", None, <<"a">>), Cell("raw", None, <<>>)}

----------------------------------------------------------------------------
(* has_linear_execution_order, _non_executed_cells_count *)

\* The loop body: one cell against the accumulator [counter, correct_exec].
OrderStepNoSourceTest(acc, c) ==
    IF c.cell_type = "code"
    THEN IF Some(acc.counter) = c.execution_count
         THEN [acc EXCEPT !.counter = acc.counter + 1]
         ELSE [acc EXCEPT !.correct_exec = FALSE]
    ELSE acc

OrderStepResetsCounter(acc, c) ==
    IF c.cell_type = "code"
    THEN IF Some(acc.counter) = c.execution_count
         THEN [acc EXCEPT !.counter = acc.counter + 1]
         ELSE IF c.source # <<>>
              THEN [counter |-> 1, correct_exec |-> FALSE]
              ELSE acc
    ELSE acc

OrderStep(acc, c) ==
    IF c.cell_type = "code"
    THEN IF Some(acc.counter) = c.execution_count
         THEN [acc EXCEPT !.counter = acc.counter + 1]
         ELSE IF c.source # <<>>
              THEN [acc EXCEPT !.correct_exec = FALSE]
              ELSE acc
    ELSE acc

RECURSIVE OrderFold(_, _)
OrderFold(acc, cl) ==
    IF cl = <<>> THEN acc ELSE OrderFold(OrderStep(acc, Head(cl)), Tail(cl))

\* The function as a whole: the fold of the loop body from (1, True).
has_linear_execution_order(cl) ==
    OrderFold([counter |-> 1, correct_exec |-> TRUE], cl).correct_exec

\* Number of code cells with no execution count and a non-empty source.
RECURSIVE NonExecutedCellsCountAnySource(_)
NonExecutedCellsCountAnySource(cl) ==
    IF cl = <<>>
    THEN 0
    ELSE LET c == Head(cl)
         IN  (IF c.cell_type = "code" /\ c.execution_count = None THEN 1 ELSE 0)
                 + NonExecutedCellsCountAnySource(Tail(cl))

RECURSIVE _non_executed_cells_count(_)
_non_executed_cells_count(cl) ==
    IF cl = <<>>
    THEN 0
    ELSE LET c == Head(cl)
         IN  (IF /\ c.cell_type = "code"
                 /\ c.execution_count = None
                 /\ Len(c.source) > 0
              THEN 1
              ELSE 0) + _non_executed_cells_count(Tail(cl))

count_non_executed_cells(cl) == _non_executed_cells_count(cl)

\* Number of code cells with no execution count and an empty source.
RECURSIVE EmptyCellsCountAnyExecution(_)
EmptyCellsCountAnyExecution(cl) ==
    IF cl = <<>>
    THEN 0
    ELSE LET c == Head(cl)
         IN  (IF c.cell_type = "code" /\ Len(c.source) = 0 THEN 1 ELSE 0)
                 + EmptyCellsCountAnyExecution(Tail(cl))

RECURSIVE _empty_cells_count(_)
_empty_cells_count(cl) ==
    IF cl = <<>>
    THEN 0
    ELSE LET c == Head(cl)
         IN  (IF /\ c.cell_type = "code"
                 /\ c.execution_count = None
                 /\ Len(c.source) = 0
              THEN 1
              ELSE 0) + _empty_cells_count(Tail(cl))

count_empty_cells(cl) == _empty_cells_count(cl)

\* The counts of the cells of one type.
RECURSIVE CountType(_, _)
CountType(cl, t) ==
    IF cl = <<>>
    THEN 0
    ELSE (IF Head(cl).cell_type = t THEN 1 ELSE 0) + CountType(Tail(cl), t)

count_md_cells(cl) == CountType(cl, "markdown")

count_code_cells(cl) == CountType(cl, "code")

count_raw_cells(cl) == CountType(cl, "raw")

\* NotebookLinterOptions(): bottom_size 4, no filename_max_length.
DefaultOptions == [bottom_size |-> 4, filename_max_length |-> None]

\* No linter is under construction.
LinterIdle == options = DefaultOptions /\ results = None /\ reports = <<>>

\* The locals of a rule that is not running.
OrderIdle == counter = 1 /\ correct_exec = TRUE

ImportsIdle ==
    /\ found_first_cell = FALSE
    /\ second_cell_not_reached = TRUE
    /\ correct_position = TRUE
    /\ cell = <<>>

BottomIdle ==
    /\ bottom_size = 4
    /\ cell_list = <<>>
    /\ md_first_cells = 0
    /\ md_bottom_cells = 0
    /\ cell_counter = 1

OrderInit ==
    /\ name = <<>>
    /\ LinterIdle
    /\ cells \in SeqsUpTo(OrderCells, MaxCells)
    /\ program = <<>>
    /\ ImportsIdle
    /\ BottomIdle
    /\ pc = "order_loop"
    /\ idx = 1
    /\ counter = 1
    /\ correct_exec = TRUE
    /\ returned = NoReturn

\* One iteration of `for cell in nb_dict["cells"]`.
OrderScanCell ==
    /\ pc = "order_loop"
    /\ idx <= Len(cells)
    /\ LET acc == OrderStep([counter |-> counter, correct_exec |-> correct_exec],
                            cells[idx])
       IN  /\ counter' = acc.counter
           /\ correct_exec' = acc.correct_exec
    /\ idx' = idx + 1
    /\ UNCHANGED <<linterVars, name, cells, program, pc, importVars, bottomVars, returned>>

\* `return correct_exec` after the last cell.
OrderReturn ==
    /\ pc = "order_loop"
    /\ idx > Len(cells)
    /\ returned' = Return("linearExecutionOrder", Some(correct_exec))
    /\ pc' = "order_done"
    /\ UNCHANGED <<linterVars, name, cells, program, idx, orderVars, importVars, bottomVars>>

\* The next rule on the same notebook: count_non_executed_cells(notebook).
CountNonExecuted ==
    /\ pc = "order_done"
    /\ returned' = Return("nonExecutedCells", Some(count_non_executed_cells(cells)))
    /\ pc' = "non_executed_done"
    /\ UNCHANGED <<linterVars, name, cells, program, idx, orderVars, importVars, bottomVars>>

\* Then count_empty_cells(notebook).
CountEmpty ==
    /\ pc = "non_executed_done"
    /\ returned' = Return("emptyCells", Some(count_empty_cells(cells)))
    /\ pc' = "empty_done"
    /\ UNCHANGED <<linterVars, name, cells, program, idx, orderVars, importVars, bottomVars>>

\* Then count_code_cells(notebook).
CountCode ==
    /\ pc = "empty_done"
    /\ returned' = Return("numberOfCodeCells",
                          Some(count_code_cells(cells)))
    /\ pc' = "done"
    /\ UNCHANGED <<linterVars, name, cells, program, idx, orderVars, importVars, bottomVars>>

OrderNext ==
    OrderScanCell \/ OrderReturn \/ CountNonExecuted \/ CountEmpty \/ CountCode

SpecOrder == OrderInit /\ [][OrderNext]_vars

----------------------------------------------------------------------------
(* The script: lines, markers, ast.parse *)

\* The lines a script is made of here. nbconvert writes "# In[n]:" before
\* the text of each code cell.
MarkerLine == "# In[1]:"
CommentLine == "# Intro"
ImportLine == "import os"
FromLine == "from os import path"
StmtLine == "x = 1"
BadLine == "x = ("
DefLine == "def f(): pass"
ClassLine == "class A: pass"

ScriptLines == {MarkerLine, CommentLine, ImportLine, FromLine, StmtLine, BadLine}

\* line[0:5]
Prefix5(line) ==
    CASE line = MarkerLine -> "# In["
      [] line = CommentLine -> "# Int"
      [] line = ImportLine -> "impor"
      [] line = FromLine -> "from "
      [] line = StmtLine -> "x = 1"
      [] line = BadLine -> "x = ("
      [] line = DefLine -> "def f"
      [] line = ClassLine -> "class"

\* The node ast.parse puts in tree.body for a line ("" for a comment line,
\* which yields none). The unclosed bracket of BadLine is closed by no line
\* of ScriptLines, so a text holding it does not parse.
NodeOf(line) ==
    CASE line = ImportLine -> "Import"
      [] line = FromLine -> "ImportFrom"
      [] line = StmtLine -> "Assign"
      [] line = DefLine -> "FunctionDef"
      [] line = ClassLine -> "ClassDef"
      [] OTHER -> ""

Parses(lines) == \A i \in 1..Len(lines) : lines[i] # BadLine

\* tree.body of ast.parse(text), for a text that parses.
TreeBody(lines) ==
    SelectSeq([i \in 1..Len(lines) |-> NodeOf(lines[i])], LAMBDA n : n # "")

\* sum(isinstance(exp, ast.Import) for exp in tree.body) > 0
HasImportNode(body) == \E i \in 1..Len(body) : body[i] = "Import"

----------------------------------------------------------------------------
(* are_imports_in_first_cell *)

\* The loop body on one line. st holds the locals and `status`: "loop" while
\* the loop goes on, "break" after the break, "raise" when ast.parse raised.
ImportsStepChecksPreamble(st, line) ==
    IF ~st.found_first_cell
    THEN IF Prefix5(line) = "# In["
         THEN [st EXCEPT !.found_first_cell = TRUE]
         ELSE [st EXCEPT !.cell = Append(st.cell, line)]
    ELSE IF ~st.second_cell_not_reached
    THEN IF Prefix5(line) # "# In["
         THEN [st EXCEPT !.cell = Append(st.cell, line)]
         ELSE IF ~Parses(st.cell)
              THEN [st EXCEPT !.status = "raise"]
              ELSE IF HasImportNode(TreeBody(st.cell))
                   THEN [st EXCEPT !.correct_position = FALSE, !.status = "break"]
                   ELSE st
    ELSE IF Prefix5(line) = "# In["
         THEN [st EXCEPT !.second_cell_not_reached = FALSE]
         ELSE st

ImportsStepChecksFirstCell(st, line) ==
    IF ~st.found_first_cell
    THEN IF Prefix5(line) = "# In["
         THEN [st EXCEPT !.found_first_cell = TRUE]
         ELSE st
    ELSE IF ~st.second_cell_not_reached
    THEN IF Prefix5(line) # "# In["
         THEN [st EXCEPT !.cell = Append(st.cell, line)]
         ELSE IF ~Parses(st.cell)
              THEN [st EXCEPT !.status = "raise"]
              ELSE IF HasImportNode(TreeBody(st.cell))
                   THEN [st EXCEPT !.correct_position = FALSE, !.status = "break"]
                   ELSE st
    ELSE IF Prefix5(line) = "# In["
         THEN [st EXCEPT !.second_cell_not_reached = FALSE]
         ELSE [st EXCEPT !.cell = Append(st.cell, line)]

ImportsStep(st, line) ==
    IF ~st.found_first_cell
    THEN IF Prefix5(line) = "# In["
         THEN [st EXCEPT !.found_first_cell = TRUE]
         ELSE st
    ELSE IF ~st.second_cell_not_reached
    THEN IF Prefix5(line) # "# In["
         THEN [st EXCEPT !.cell = Append(st.cell, line)]
         ELSE IF ~Parses(st.cell)
              THEN [st EXCEPT !.status = "raise"]
              ELSE IF HasImportNode(TreeBody(st.cell))
                   THEN [st EXCEPT !.correct_position = FALSE, !.status = "break"]
                   ELSE st
    ELSE IF Prefix5(line) = "# In["
         THEN [st EXCEPT !.second_cell_not_reached = FALSE]
         ELSE st

ImportsLocals(status) ==
    [found_first_cell |-> found_first_cell,
     second_cell_not_reached |-> second_cell_not_reached,
     correct_position |-> correct_position,
     cell |-> cell,
     status |-> status]

ImportsStart ==
    [found_first_cell |-> FALSE,
     second_cell_not_reached |-> TRUE,
     correct_position |-> TRUE,
     cell |-> <<>>,
     status |-> "loop"]

RECURSIVE ImportsFold(_, _)
ImportsFold(st, lines) ==
    IF lines = <<>> \/ st.status # "loop"
    THEN st
    ELSE ImportsFold(ImportsStep(st, Head(lines)), Tail(lines))

\* How a call ends: [kind |-> "return", value |-> correct_position], or
\* [kind |-> "raise", value |-> "SyntaxError"].
Returns(v) == [kind |-> "return", value |-> v]
Raises(e) == [kind |-> "raise", value |-> e]

\* The function as a whole, on the lines of the script.
are_imports_in_first_cell(lines) ==
    LET st == ImportsFold(ImportsStart, lines)
    IN  IF st.status = "raise"
        THEN Raises("SyntaxError")
        ELSE Returns(st.correct_position)

ImportsInit ==
    /\ name = <<>>
    /\ LinterIdle
    /\ program \in SeqsUpTo(ScriptLines, MaxLines)
    /\ cells = <<>>
    /\ pc = "imports_loop"
    /\ idx = 1
    /\ OrderIdle
    /\ ImportsIdle
    /\ BottomIdle
    /\ returned = NoReturn

\* One iteration of `for line in program`.
ImportsScanLine ==
    /\ pc = "imports_loop"
    /\ idx <= Len(program)
    /\ LET st == ImportsStep(ImportsLocals("loop"), program[idx])
       IN  /\ found_first_cell' = st.found_first_cell
           /\ second_cell_not_reached' = st.second_cell_not_reached
           /\ correct_position' = st.correct_position
           /\ cell' = st.cell
           /\ pc' = CASE st.status = "loop" -> "imports_loop"
                      [] st.status = "break" -> "imports_break"
                      [] st.status = "raise" -> "raised"
    /\ idx' = idx + 1
    /\ UNCHANGED <<linterVars, name, cells, program, orderVars, bottomVars, returned>>

\* `return correct_position`, after the last line or after the break.
ImportsReturn ==
    /\ \/ pc = "imports_loop" /\ idx > Len(program)
       \/ pc = "imports_break"
    /\ returned' = Return("allImportsInFirstCell", Some(correct_position))
    /\ pc' = "done"
    /\ UNCHANGED <<linterVars, name, cells, program, idx, orderVars, importVars, bottomVars>>

ImportsNext == ImportsScanLine \/ ImportsReturn

SpecImports == ImportsInit /\ [][ImportsNext]_vars

----------------------------------------------------------------------------
(* The bottom rules: _extract_bottom_cells_of_code, count_bottom_*,
   get_bottom_md_lines_ratio *)

\* Cells of the bottom rules: a code cell never run with text, an empty one,
\* markdown cells of one and of two lines, a raw cell.
BottomCells ==
    {Cell("code", None, <<"a">>),
     Cell("code", None, <<>>),
     Cell("markdown", None, <<"a">>),
     Cell("markdown", None, <<"a", "\n", "b">>),
     Cell("raw", None, <<"a">>)}

count_cells(cl) == Len(cl)

\* bottom_size < len(nb_dict["cells"]) / 3, a true division.
BottomPreconditionFloorDiv(w, total) == w < total \div 3

BottomPreconditionInclusive(w, total) == 3 * w <= total

BottomPrecondition(w, total) == 3 * w < total

\* len(source.split("\n"))
SplitLen(src) == 1 + Cardinality({i \in 1..Len(src) : src[i] = "\n"})

RECURSIVE Gcd(_, _)
Gcd(a, b) == IF b = 0 THEN a ELSE Gcd(b, a % b)

\* The value of num / den (den > 0), in lowest terms; the integer 0 is 0/1.
Fraction(num, den) ==
    LET g == Gcd(num, den) IN [num |-> num \div g, den |-> den \div g]

\* The loop body of _extract_bottom_cells_of_code on the cell at position p
\* of full_list. cell_list holds positions of full_list: the list holds the
\* cell objects themselves, not copies.
ExtractStepCountsEveryCell(st, p, cl, w) ==
    IF st.counter <= w
    THEN IF cl[p].cell_type = "code"
         THEN [st EXCEPT !.cell_list = Append(st.cell_list, p),
                         !.counter = st.counter + 1]
         ELSE [st EXCEPT !.counter = st.counter + 1]
    ELSE [st EXCEPT !.status = "break"]

ExtractStepNoBudget(st, p, cl, w) ==
    IF cl[p].cell_type = "code"
    THEN [st EXCEPT !.cell_list = Append(st.cell_list, p),
                    !.counter = st.counter + 1]
    ELSE st

ExtractStep(st, p, cl, w) ==
    IF st.counter <= w
    THEN IF cl[p].cell_type = "code"
         THEN [st EXCEPT !.cell_list = Append(st.cell_list, p),
                         !.counter = st.counter + 1]
         ELSE st
    ELSE [st EXCEPT !.status = "break"]

\* k-th position of reversed(full_list).
Reversed(cl, k) == Len(cl) - k + 1

RECURSIVE ExtractFold(_, _, _, _)
ExtractFold(st, k, cl, w) ==
    IF k > Len(cl) \/ st.status # "loop"
    THEN st
    ELSE ExtractFold(ExtractStep(st, Reversed(cl, k), cl, w), k + 1, cl, w)

\* The positions, in the order collected, of the cells the function returns.
_extract_bottom_cells_of_code(cl, w) ==
    ExtractFold([cell_list |-> <<>>, counter |-> 1, status |-> "loop"],
                1, cl, w).cell_list

\* The cells at the positions collected.
CellsAt(cl, positions) == [k \in 1..Len(positions) |-> cl[positions[k]]]

count_bottom_non_executed_cells(cl, w) ==
    IF BottomPrecondition(w, Len(cl))
    THEN Some(_non_executed_cells_count(
                  CellsAt(cl, _extract_bottom_cells_of_code(cl, w))))
    ELSE None

count_bottom_empty_cells(cl, w) ==
    IF BottomPrecondition(w, Len(cl))
    THEN Some(_empty_cells_count(
                  CellsAt(cl, _extract_bottom_cells_of_code(cl, w))))
    ELSE None

\* The loop body of get_bottom_md_lines_ratio.
RatioStepBoundaryInBottom(st, c, total_cells, w) ==
    LET lines == SplitLen(c.source)
        counted ==
            IF st.cell_counter < total_cells - w /\ c.cell_type = "markdown"
            THEN [st EXCEPT !.md_first_cells = st.md_first_cells + lines]
            ELSE IF st.cell_counter >= total_cells - w /\ c.cell_type = "markdown"
            THEN [st EXCEPT !.md_bottom_cells = st.md_bottom_cells + lines]
            ELSE st
    IN  [counted EXCEPT !.cell_counter = st.cell_counter + 1]

RatioStep(st, c, total_cells, w) ==
    LET lines == SplitLen(c.source)
        counted ==
            IF st.cell_counter <= total_cells - w /\ c.cell_type = "markdown"
            THEN [st EXCEPT !.md_first_cells = st.md_first_cells + lines]
            ELSE IF st.cell_counter > total_cells - w /\ c.cell_type = "markdown"
            THEN [st EXCEPT !.md_bottom_cells = st.md_bottom_cells + lines]
            ELSE st
    IN  [counted EXCEPT !.cell_counter = st.cell_counter + 1]

RECURSIVE RatioFold(_, _, _, _)
RatioFold(st, rest, total_cells, w) ==
    IF rest = <<>>
    THEN st
    ELSE RatioFold(RatioStep(st, Head(rest), total_cells, w), Tail(rest),
                   total_cells, w)

\* The two returns after the loop. Without the test of the sum the quotient
\* of no markdown line at all is 0 / 0.
RatioValueNoZeroTest(first, bottom) ==
    IF first + bottom = 0
    THEN [num |-> 0, den |-> 0]
    ELSE Fraction(bottom, first + bottom)

RatioValue(first, bottom) ==
    IF first + bottom = 0 THEN Fraction(0, 1) ELSE Fraction(bottom, first + bottom)

get_bottom_md_lines_ratio(cl, w) ==
    LET total_cells == count_cells(cl)
    IN  IF BottomPrecondition(w, total_cells)
        THEN LET st == RatioFold([md_first_cells |-> 0, md_bottom_cells |-> 0,
                                  cell_counter |-> 1], cl, total_cells, w)
             IN  Some(RatioValue(st.md_first_cells, st.md_bottom_cells))
        ELSE None

\* The two counting rules, which differ by the count they take of the window.
BottomRules ==
    {[key |-> "bottomNonExecutedCells", entry |-> "bne_entry",
      loop |-> "bne_loop", break |-> "bne_break", next |-> "be_entry"],
     [key |-> "bottomEmptyCells", entry |-> "be_entry",
      loop |-> "be_loop", break |-> "be_break", next |-> "done"]}

WindowCount(r, window) ==
    IF r.key = "bottomNonExecutedCells"
    THEN _non_executed_cells_count(window)
    ELSE _empty_cells_count(window)

\* The three bottom rules on one notebook with one bottom_size, called in
\* the order NotebookLinter calls them.
BottomInit ==
    /\ name = <<>>
    /\ LinterIdle
    /\ cells \in SeqsUpTo(BottomCells, MaxBottomCells)
    /\ bottom_size \in -1..MaxBottomSize
    /\ program = <<>>
    /\ pc = "ratio_entry"
    /\ idx = 1
    /\ OrderIdle
    /\ ImportsIdle
    /\ cell_list = <<>>
    /\ md_first_cells = 0
    /\ md_bottom_cells = 0
    /\ cell_counter = 1
    /\ returned = NoReturn

\* get_bottom_md_lines_ratio: the precondition holds, the loop starts.
RatioEnter ==
    /\ pc = "ratio_entry"
    /\ BottomPrecondition(bottom_size, count_cells(cells))
    /\ md_first_cells' = 0
    /\ md_bottom_cells' = 0
    /\ cell_counter' = 1
    /\ idx' = 1
    /\ pc' = "ratio_loop"
    /\ UNCHANGED <<linterVars, name, cells, program, orderVars, importVars, bottom_size, cell_list,
                   returned>>

\* get_bottom_md_lines_ratio: the precondition fails, `return None`.
RatioNotApplicable ==
    /\ pc = "ratio_entry"
    /\ ~BottomPrecondition(bottom_size, count_cells(cells))
    /\ returned' = Return("bottomMarkdownLinesRatio", None)
    /\ pc' = "bne_entry"
    /\ UNCHANGED <<linterVars, name, cells, program, idx, orderVars, importVars, bottomVars>>

\* get_bottom_md_lines_ratio: one iteration of `for cell in nb_dict["cells"]`.
RatioScanCell ==
    /\ pc = "ratio_loop"
    /\ idx <= Len(cells)
    /\ LET st == RatioStep([md_first_cells |-> md_first_cells,
                            md_bottom_cells |-> md_bottom_cells,
                            cell_counter |-> cell_counter],
                           cells[idx], count_cells(cells), bottom_size)
       IN  /\ md_first_cells' = st.md_first_cells
           /\ md_bottom_cells' = st.md_bottom_cells
           /\ cell_counter' = st.cell_counter
    /\ idx' = idx + 1
    /\ UNCHANGED <<linterVars, name, cells, program, pc, orderVars, importVars, bottom_size,
                   cell_list, returned>>

\* get_bottom_md_lines_ratio: the return after the loop.
RatioReturn ==
    /\ pc = "ratio_loop"
    /\ idx > Len(cells)
    /\ returned' = Return("bottomMarkdownLinesRatio",
                          Some(RatioValue(md_first_cells, md_bottom_cells)))
    /\ pc' = "bne_entry"
    /\ UNCHANGED <<linterVars, name, cells, program, idx, orderVars, importVars, bottomVars>>

\* count_bottom_*: the precondition holds, _extract_bottom_cells_of_code starts.
WindowEnter(r) ==
    /\ pc = r.entry
    /\ BottomPrecondition(bottom_size, Len(cells))
    /\ cell_list' = <<>>
    /\ counter' = 1
    /\ idx' = 1
    /\ pc' = r.loop
    /\ UNCHANGED <<linterVars, name, cells, program, correct_exec, importVars, bottom_size,
                   md_first_cells, md_bottom_cells, cell_counter, returned>>

\* count_bottom_*: the precondition fails, `return None`.
WindowNotApplicable(r) ==
    /\ pc = r.entry
    /\ ~BottomPrecondition(bottom_size, Len(cells))
    /\ returned' = Return(r.key, None)
    /\ pc' = r.next
    /\ UNCHANGED <<linterVars, name, cells, program, idx, orderVars, importVars, bottomVars>>

\* _extract_bottom_cells_of_code: one iteration of `for cell in
\* reversed(full_list)`, the break included.
ExtractScanCell(r) ==
    /\ pc = r.loop
    /\ idx <= Len(cells)
    /\ LET st == ExtractStep([cell_list |-> cell_list, counter |-> counter,
                              status |-> "loop"],
                             Reversed(cells, idx), cells, bottom_size)
       IN  /\ cell_list' = st.cell_list
           /\ counter' = st.counter
           /\ pc' = IF st.status = "break" THEN r.break ELSE r.loop
    /\ idx' = idx + 1
    /\ UNCHANGED <<linterVars, name, cells, program, correct_exec, importVars, bottom_size,
                   md_first_cells, md_bottom_cells, cell_counter, returned>>

\* _extract_bottom_cells_of_code returns cell_list, after the last cell or
\* after the break, and count_bottom_* returns the count taken of it.
WindowReturn(r) ==
    /\ \/ pc = r.loop /\ idx > Len(cells)
       \/ pc = r.break
    /\ returned' = Return(r.key, Some(WindowCount(r, CellsAt(cells, cell_list))))
    /\ pc' = r.next
    /\ UNCHANGED <<linterVars, name, cells, program, idx, orderVars, importVars, bottomVars>>

BottomNext ==
    \/ RatioEnter
    \/ RatioNotApplicable
    \/ RatioScanCell
    \/ RatioReturn
    \/ \E r \in BottomRules :
           \/ WindowEnter(r)
           \/ WindowNotApplicable(r)
           \/ ExtractScanCell(r)
           \/ WindowReturn(r)

SpecBottom == BottomInit /\ [][BottomNext]_vars

----------------------------------------------------------------------------
(* The remaining rules *)

\* Number of nodes of type t in tree.body.
CountNodes(body, t) == Cardinality({i \in 1..Len(body) : body[i] = t})

\* ast.parse(notebook.script) and the count of the top-level definitions.
count_func_defs(lines) ==
    IF Parses(lines)
    THEN Returns(CountNodes(TreeBody(lines), "FunctionDef"))
    ELSE Raises("SyntaxError")

count_class_defs(lines) ==
    IF Parses(lines)
    THEN Returns(CountNodes(TreeBody(lines), "ClassDef"))
    ELSE Raises("SyntaxError")

RECURSIVE count_md_lines(_)
count_md_lines(cl) ==
    IF cl = <<>>
    THEN 0
    ELSE (IF Head(cl).cell_type = "markdown" THEN SplitLen(Head(cl).source) ELSE 0)
             + count_md_lines(Tail(cl))

\* `for row in cell["source"]` runs over the characters of the source, a
\* str; row.lstrip().startswith("#") holds of the character "#" alone.
TitleRows(src) == Cardinality({i \in 1..Len(src) : src[i] = "#"})

RECURSIVE count_md_titles(_)
count_md_titles(cl) ==
    IF cl = <<>>
    THEN 0
    ELSE (IF Head(cl).cell_type = "markdown" THEN TitleRows(Head(cl).source) ELSE 0)
             + count_md_titles(Tail(cl))

UntitledName == <<"U", "n", "t", "i", "t", "l", "e", "d", ".", "i", "p", "y", "n", "b">>

is_titled(nm) == nm # UntitledName

\* [A-Za-z0-9_.-]
Charset ==
    {"A", "B", "C", "D", "E", "F", "G", "H", "I", "J", "K", "L", "M",
     "N", "O", "P", "Q", "R", "S", "T", "U", "V", "W", "X", "Y", "Z",
     "a", "b", "c", "d", "e", "f", "g", "h", "i", "j", "k", "l", "m",
     "n", "o", "p", "q", "r", "s", "t", "u", "v", "w", "x", "y", "z",
     "0", "1", "2", "3", "4", "5", "6", "7", "8", "9", "_", ".", "-"}

AllInCharset(str) == \A i \in 1..Len(str) : str[i] \in Charset

\* re.search("^[A-Za-z0-9_.-]+$", name): one or more characters of the
\* charset up to the end of the name, or up to a newline that ends it ($
\* also matches just before a final newline).
is_filename_charset_restricted(nm) ==
    \/ Len(nm) >= 1 /\ AllInCharset(nm)
    \/ /\ Len(nm) >= 2
       /\ nm[Len(nm)] = "\n"
       /\ AllInCharset(SubSeq(nm, 1, Len(nm) - 1))

\* Characters of the file names: a letter, the dot, a space and a newline,
\* which a file name may hold on a POSIX file system.
NameChars == {"a", ".", " ", "\n"}

\* The two filename rules on one notebook, in the order NotebookLinter
\* calls them. A file name has at least one character.
FilenameInit ==
    /\ name \in {UntitledName} \cup (SeqsUpTo(NameChars, MaxNameLen) \ {<<>>})
    /\ cells = <<>>
    /\ program = <<>>
    /\ LinterIdle
    /\ pc = "titled_entry"
    /\ idx = 1
    /\ OrderIdle
    /\ ImportsIdle
    /\ BottomIdle
    /\ returned = NoReturn

FilenameTitled ==
    /\ pc = "titled_entry"
    /\ returned' = Return("isTitled", Some(is_titled(name)))
    /\ pc' = "charset_entry"
    /\ UNCHANGED <<linterVars, name, cells, program, idx, orderVars, importVars,
                   bottomVars>>

FilenameCharset ==
    /\ pc = "charset_entry"
    /\ returned' = Return("isFilenameCharsetRestr",
                          Some(is_filename_charset_restricted(name)))
    /\ pc' = "done"
    /\ UNCHANGED <<linterVars, name, cells, program, idx, orderVars, importVars,
                   bottomVars>>

FilenameNext == FilenameTitled \/ FilenameCharset

SpecFilename == FilenameInit /\ [][FilenameNext]_vars

----------------------------------------------------------------------------
(* NotebookLinter.__init__ *)

\* The entries of the results dict, in the order the dict display
\* evaluates them.
RuleOrder ==
    <<"notebookName",
      "numberOfCells", "numberOfMDCells", "numberOfCodeCells", "numberOfRawCells",
      "linearExecutionOrder", "numberOfClassDefinitions",
      "numberOfFunctionDefinitions", "allImportsInFirstCell",
      "numberOfMarkdownLines", "numberOfMarkdownTitles",
      "bottomMarkdownLinesRatio", "nonExecutedCells", "emptyCells",
      "bottomNonExecutedCells", "bottomEmptyCells", "isTitled",
      "isFilenameCharsetRestr">>

StatsKeys == {"numberOfCells", "numberOfMDCells", "numberOfCodeCells", "numberOfRawCells"}

LintingKeys == Range(RuleOrder) \ (StatsKeys \cup {"notebookName"})

\* A returned value v as an outcome; a sentinel None stays None.
Value(v) == Returns(Some(v))

\* The expression of the entry `key`, on the notebook (nm, cl, lines) with
\* the options opts: it returns a value or raises.
RuleOutcome(key, nm, cl, lines, opts) ==
    CASE key = "notebookName" -> Value(nm)
      [] key = "numberOfCells" -> Value(count_cells(cl))
      [] key = "numberOfMDCells" -> Value(count_md_cells(cl))
      [] key = "numberOfCodeCells" -> Value(count_code_cells(cl))
      [] key = "numberOfRawCells" -> Value(count_raw_cells(cl))
      [] key = "linearExecutionOrder" -> Value(has_linear_execution_order(cl))
      [] key = "numberOfClassDefinitions" ->
             LET out == count_class_defs(lines)
             IN  IF out.kind = "raise" THEN out ELSE Value(out.value)
      [] key = "numberOfFunctionDefinitions" ->
             LET out == count_func_defs(lines)
             IN  IF out.kind = "raise" THEN out ELSE Value(out.value)
      [] key = "allImportsInFirstCell" ->
             LET out == are_imports_in_first_cell(lines)
             IN  IF out.kind = "raise" THEN out ELSE Value(out.value)
      [] key = "numberOfMarkdownLines" -> Value(count_md_lines(cl))
      [] key = "numberOfMarkdownTitles" -> Value(count_md_titles(cl))
      [] key = "bottomMarkdownLinesRatio" ->
             Returns(get_bottom_md_lines_ratio(cl, opts.bottom_size))
      [] key = "nonExecutedCells" -> Value(count_non_executed_cells(cl))
      [] key = "emptyCells" -> Value(count_empty_cells(cl))
      [] key = "bottomNonExecutedCells" ->
             Returns(count_bottom_non_executed_cells(cl, opts.bottom_size))
      [] key = "bottomEmptyCells" ->
             Returns(count_bottom_empty_cells(cl, opts.bottom_size))
      [] key = "isTitled" -> Value(is_titled(nm))
      [] key = "isFilenameCharsetRestr" -> Value(is_filename_charset_restricted(nm))

\* The dict assigned to self.results, from the values of its entries.
ResultsDictOmitsSentinels(vals) ==
    [notebookName |-> vals["notebookName"],
     notebookStats |-> [k \in StatsKeys |-> vals[k]],
     lintingResults |-> [k \in {j \in LintingKeys : vals[j] # None} |-> vals[k]]]

ResultsDict(vals) ==
    [notebookName |-> vals["notebookName"],
     notebookStats |-> [k \in StatsKeys |-> vals[k]],
     lintingResults |-> [k \in LintingKeys |-> vals[k]]]

\* Cells, scripts and names of the notebooks handed to the linter. The
\* script is the attribute notebook.script as the rules read it.
LinterCells ==
    {Cell("code", Some(1), <<"a">>),
     Cell("code", None, <<>>),
     Cell("markdown", None, <<"#", "#", " ", "a", "\n", "b">>),
     Cell("raw", None, <<"a">>)}

LinterLines == {MarkerLine, ImportLine, DefLine, ClassLine, BadLine}

LinterNames ==
    {UntitledName,
     <<"n", "b", ".", "i", "p", "y", "n", "b">>,
     <<"m", "y", " ", "n", "b">>}

LinterInit ==
    /\ name \in LinterNames
    /\ cells \in SeqsUpTo(LinterCells, MaxLintCells)
    /\ program \in SeqsUpTo(LinterLines, MaxLintLines)
    /\ options = DefaultOptions
    /\ results = None
    /\ reports = <<>>
    /\ pc = "linter_init"
    /\ idx = 1
    /\ OrderIdle
    /\ ImportsIdle
    /\ BottomIdle
    /\ returned = NoReturn

\* The next entry of the dict display is evaluated.
LinterEvalRule ==
    /\ pc = "linter_init"
    /\ idx <= Len(RuleOrder)
    /\ LET out == RuleOutcome(RuleOrder[idx], name, cells, program, options)
       IN  /\ out.kind = "return"
           /\ returned' = Return(RuleOrder[idx], out.value)
    /\ idx' = idx + 1
    /\ UNCHANGED <<linterVars, name, cells, program, pc, orderVars, importVars,
                   bottomVars>>

\* The expression of the next entry raises: the exception leaves __init__
\* before self.results is assigned.
LinterRaise ==
    /\ pc = "linter_init"
    /\ idx <= Len(RuleOrder)
    /\ RuleOutcome(RuleOrder[idx], name, cells, program, options).kind = "raise"
    /\ pc' = "raised"
    /\ UNCHANGED <<linterVars, name, cells, program, idx, orderVars, importVars,
                   bottomVars, returned>>

\* self.results = {...}
LinterAssign ==
    /\ pc = "linter_init"
    /\ idx > Len(RuleOrder)
    /\ results' = Some(ResultsDict(returned))
    /\ pc' = "done"
    /\ UNCHANGED <<options, reports, name, cells, program, idx, orderVars,
                   importVars, bottomVars, returned>>

LinterNext == LinterEvalRule \/ LinterRaise \/ LinterAssign

SpecLinter == LinterInit /\ [][LinterNext]_vars

----------------------------------------------------------------------------
(* Analyses one after the other *)

\* The documents analysed in turn: two names, two lists of cells, a script
\* that parses and one that does not.
RunsDocuments ==
    [name : {UntitledName, <<"n", "b">>},
     cells : {<<Cell("code", Some(1), <<"a">>)>>,
              <<Cell("markdown", None, <<"#", "#">>), Cell("code", None, <<>>)>>},
     program : {<<MarkerLine, ImportLine>>, <<BadLine>>}]

RunsInit ==
    /\ \E d \in RunsDocuments :
           name = d.name /\ cells = d.cells /\ program = d.program
    /\ options = DefaultOptions
    /\ results = None
    /\ reports = <<>>
    /\ pc = "linter_init"
    /\ idx = 1
    /\ OrderIdle
    /\ ImportsIdle
    /\ BottomIdle
    /\ returned = NoReturn

\* The caller takes what the analysis left: get_linting_results() of the
\* linter, or nothing when the constructor raised.
RunsKeep ==
    /\ pc \in {"done", "raised"}
    /\ reports' = Append(reports, [name |-> name, cells |-> cells,
                                   program |-> program, results |-> results])
    /\ pc' = "kept"
    /\ UNCHANGED <<options, results, name, cells, program, idx, orderVars,
                   importVars, bottomVars, returned>>

\* NotebookLinter(notebook) on the next document: a new object, new options
\* and a new dict display. The variant keeps the entries of the dict of the
\* analysis before.
RunsNewAnalysisKeepsEntries ==
    /\ pc = "kept"
    /\ Len(reports) < MaxRuns
    /\ \E d \in RunsDocuments :
           name' = d.name /\ cells' = d.cells /\ program' = d.program
    /\ options' = DefaultOptions
    /\ results' = None
    /\ idx' = 1
    /\ pc' = "linter_init"
    /\ UNCHANGED <<reports, orderVars, importVars, bottomVars, returned>>

RunsNewAnalysis ==
    /\ pc = "kept"
    /\ Len(reports) < MaxRuns
    /\ \E d \in RunsDocuments :
           name' = d.name /\ cells' = d.cells /\ program' = d.program
    /\ options' = DefaultOptions
    /\ results' = None
    /\ returned' = NoReturn
    /\ idx' = 1
    /\ pc' = "linter_init"
    /\ UNCHANGED <<reports, orderVars, importVars, bottomVars>>

RunsNext ==
    \/ LinterEvalRule
    \/ LinterRaise
    \/ LinterAssign
    \/ RunsKeep
    \/ RunsNewAnalysis

SpecRuns == RunsInit /\ [][RunsNext]_vars

----------------------------------------------------------------------------
(* Claims on the execution-order scan *)

IsCode(c) == c.cell_type = "code"

\* The expected counter when the cell at position j is scanned, as the design
\* states it: 1 at the first cell, one more after each code cell whose
\* execution count equalled it, unchanged after any other cell.
RECURSIVE ExpectedAt(_)
ExpectedAt(j) ==
    IF j <= 1
    THEN 1
    ELSE LET e == ExpectedAt(j - 1)
         IN  IF IsCode(cells[j - 1]) /\ cells[j - 1].execution_count = Some(e)
             THEN e + 1
             ELSE e

\* The cell at position j is a non-empty code cell whose count differs from
\* the counter at the moment it is scanned.
Mismatch(j) ==
    /\ IsCode(cells[j])
    /\ cells[j].source # <<>>
    /\ cells[j].execution_count # Some(ExpectedAt(j))

\* C1: throughout the scan the counter is the expected counter of the design
\* (from 1, plus one exactly on a matching code cell, never reset), the result
\* so far is true iff no non-empty code cell scanned so far mismatched (so a
\* false result stays false), and the returned value is that of the whole list.
C1_LinearOrderScan ==
    /\ counter = ExpectedAt(idx)
    /\ correct_exec = ~(\E j \in 1..(idx - 1) : Mismatch(j))
    /\ HasReturned("linearExecutionOrder") =>
          returned["linearExecutionOrder"]
              = Some(~(\E j \in 1..Len(cells) : Mismatch(j)))

ExecCountsOf(cl) == [j \in 1..Len(cl) |-> cl[j].execution_count]

\* Non-empty code cells run 1, 3, 2 with a markdown cell in between: false;
\* the mismatch on 3 leaves the counter at 2, which the last cell then matches.
C1_Witness ==
    /\ pc = "done"
    /\ Len(cells) = 4
    /\ cells[2].cell_type = "markdown"
    /\ \A j \in {1, 3, 4} : IsCode(cells[j]) /\ cells[j].source # <<>>
    /\ ExecCountsOf(cells) = <<Some(1), None, Some(3), Some(2)>>
    /\ returned["linearExecutionOrder"] = Some(FALSE)
    /\ counter = 3

EmptyCodeCell(c) == IsCode(c) /\ c.source = <<>>

RemoveAt(cl, i) == SubSeq(cl, 1, i - 1) \o SubSeq(cl, i + 1, Len(cl))

WithExecCount(cl, i, ec) == [cl EXCEPT ![i].execution_count = ec]

\* The count returned for the notebook is the count of the notebook without
\* the cell at position i.
NotCounted(i) ==
    returned["nonExecutedCells"] = Some(count_non_executed_cells(RemoveAt(cells, i)))

\* C2 as stated: an empty code cell is not counted as non-executed, and
\* replacing its execution count by any other value keeps a true result true.
C2_Original ==
    pc = "done" =>
        \A i \in 1..Len(cells) :
            EmptyCodeCell(cells[i]) =>
                /\ NotCounted(i)
                /\ \A ec \in ExecCounts :
                       returned["linearExecutionOrder"] = Some(TRUE) =>
                           has_linear_execution_order(WithExecCount(cells, i, ec))

\* C2 as amended: an empty code cell is not counted as non-executed, and the
\* step that scans it never changes the result; its execution count still
\* moves the expected counter that later cells are compared with.
C2_EmptyCellNeverFails ==
    /\ [](pc = "done" =>
            \A i \in 1..Len(cells) : EmptyCodeCell(cells[i]) => NotCounted(i))
    /\ [][(/\ pc = "order_loop"
           /\ idx <= Len(cells)
           /\ EmptyCodeCell(cells[idx])) => correct_exec' = correct_exec]_vars

\* An empty never-run code cell and an empty code cell whose count is not the
\* expected one, in a notebook the scan accepts.
C2_Witness ==
    /\ pc = "done"
    /\ returned["linearExecutionOrder"] = Some(TRUE)
    /\ \E i \in 1..Len(cells) :
           EmptyCodeCell(cells[i]) /\ cells[i].execution_count = None
    /\ \E i \in 1..Len(cells) :
           /\ EmptyCodeCell(cells[i])
           /\ cells[i].execution_count \notin {None, Some(ExpectedAt(i))}
    /\ \E i \in 1..Len(cells) : ~EmptyCodeCell(cells[i]) /\ IsCode(cells[i])

----------------------------------------------------------------------------
(* Claims on are_imports_in_first_cell *)

IsMarker(i) == Prefix5(program[i]) = "# In["

Markers(lines) == {i \in 1..Len(lines) : Prefix5(lines[i]) = "# In["}

\* The cell a line belongs to: the number of markers up to it (0: preamble).
CellNo(i) == Cardinality({j \in Markers(program) : j <= i})

NumCells == Cardinality(Markers(program))

\* Positions of the text lines of cell k.
TextOf(k) == {i \in 1..Len(program) : ~IsMarker(i) /\ CellNo(i) = k}

ImportNodes == {"Import", "ImportFrom"}

\* Some cell after the first holds a line of one of the given node types.
LaterCellHas(nodes) ==
    \E i \in 1..Len(program) : CellNo(i) >= 2 /\ NodeOf(program[i]) \in nodes

LaterCellUnparsable ==
    \E i \in 1..Len(program) : CellNo(i) >= 2 /\ program[i] = BadLine

\* The lines of the script at the positions that satisfy Keep.
Keeping(Keep(_)) ==
    LET F[i \in 0..Len(program)] ==
            IF i = 0 THEN <<>>
            ELSE IF Keep(i) THEN Append(F[i - 1], program[i]) ELSE F[i - 1]
    IN  F[Len(program)]

\* How the call on `program` ended, once it has.
Ended == pc \in {"done", "raised"}

Outcome ==
    IF pc = "raised"
    THEN Raises("SyntaxError")
    ELSE Returns(returned["allImportsInFirstCell"][1])

\* C3 as stated: with an `import` statement in a cell after the first, the
\* call that returns returns false.
C3_Original ==
    (pc = "done" /\ NumCells >= 2 /\ LaterCellHas({"Import"})) =>
        returned["allImportsInFirstCell"] = Some(FALSE)

C5_PreambleSkipped ==
    /\ (\A j \in 1..(idx - 1) : j <= Len(program) => ~IsMarker(j)) =>
          /\ ImportsIdle
          /\ pc # "raised"
    /\ Ended =>
          /\ Outcome = are_imports_in_first_cell(
                           Keeping(LAMBDA i : CellNo(i) >= 1))
          /\ NumCells = 0 => Outcome = Returns(TRUE)

\* An import before the first marker of a script whose cells are checked.
C5_Witness ==
    /\ pc = "done"
    /\ \E i \in TextOf(0) : program[i] = ImportLine
    /\ NumCells >= 3
    /\ TextOf(2) # {}
    /\ returned["allImportsInFirstCell"] = Some(TRUE)

\* C6 as stated: when a cell after the first does not parse, the call does
\* not return true.
C6_Original ==
    (Ended /\ LaterCellUnparsable) => Outcome # Returns(TRUE)

\* A checked cell beyond the first: one that a later marker closes, so
\* that its text is parsed.
CheckedCell(k) == 2 <= k /\ k < NumCells

\* Some checked cell holds a line of one of the given node types, and the
\* checked cells parse.
CheckedCellHas(nodes) ==
    /\ \E i \in 1..Len(program) :
           CheckedCell(CellNo(i)) /\ NodeOf(program[i]) \in nodes
    /\ \A i \in 1..Len(program) :
           CheckedCell(CellNo(i)) => program[i] # BadLine

\* C18 as stated: an import statement of either form, `import x` or
\* `from x import y`, in a checked cell beyond the first makes the call
\* return false.
C18_Original ==
    (Ended /\ CheckedCellHas(ImportNodes)) => Outcome = Returns(FALSE)

----------------------------------------------------------------------------
(* Claims on the bottom rules *)

BottomKeys == {"bottomMarkdownLinesRatio", "bottomNonExecutedCells", "bottomEmptyCells"}

\* v is a number: a count for the two counting rules, a ratio for the third.
IsNumber(k, v) ==
    /\ Len(v) = 1
    /\ IF k = "bottomMarkdownLinesRatio"
       THEN v[1].num \in Nat /\ v[1].den \in Nat \ {0}
       ELSE v[1] \in Nat

\* C8: each bottom rule returns None exactly when 3 * bottom_size >=
\* total_cells and a number otherwise, so the three agree on applicability.
C8_BottomApplicability ==
    /\ \A k \in BottomKeys :
           HasReturned(k) =>
               /\ returned[k] = None <=> 3 * bottom_size >= Len(cells)
               /\ returned[k] # None => IsNumber(k, returned[k])
    /\ pc = "done" =>
           \A k1, k2 \in BottomKeys : returned[k1] = None <=> returned[k2] = None

\* Four cells and bottom_size 1 (1 < 4/3): the three rules return numbers.
C8_Witness ==
    /\ pc = "done"
    /\ Len(cells) = 4
    /\ bottom_size = 1
    /\ \A k \in BottomKeys : returned[k] # None

Max(a, b) == IF a >= b THEN a ELSE b

CodePositions == {p \in 1..Len(cells) : IsCode(cells[p])}

\* Positions of the last w code cells of the document (all of them when
\* there are fewer, none when w <= 0).
LastCodePositions(w) ==
    {p \in CodePositions : Cardinality({q \in CodePositions : q >= p}) <= w}

NonExecutedAt(p) ==
    IsCode(cells[p]) /\ cells[p].execution_count = None /\ cells[p].source # <<>>

EmptyAt(p) ==
    IsCode(cells[p]) /\ cells[p].execution_count = None /\ cells[p].source = <<>>

RECURSIVE MdLinesIn(_)
MdLinesIn(P) ==
    IF P = {}
    THEN 0
    ELSE LET p == CHOOSE q \in P : TRUE
         IN  (IF cells[p].cell_type = "markdown" THEN SplitLen(cells[p].source) ELSE 0)
                 + MdLinesIn(P \ {p})

\* The ratio bottom / (bottom + top), 0 when there is no line at all.
RatioOf(bottom, top) ==
    IF bottom + top = 0 THEN Fraction(0, 1) ELSE Fraction(bottom, bottom + top)

Positions == 1..Len(cells)

\* C10 as stated, for a window of at least one cell: the bottom lines are
\* those of the last total_cells - w positions, the top lines those of the
\* positions before them.
C10_Original ==
    (/\ HasReturned("bottomMarkdownLinesRatio")
     /\ returned["bottomMarkdownLinesRatio"] # None
     /\ bottom_size >= 1) =>
        LET trailing ==
                {p \in Positions : p > Len(cells) - (Len(cells) - bottom_size)}
        IN  returned["bottomMarkdownLinesRatio"]
                = Some(RatioOf(MdLinesIn(trailing), MdLinesIn(Positions \ trailing)))

\* C10 as amended: the bottom lines are those of the last w positions (the
\* positions above total_cells - w), the top lines those of the first
\* total_cells - w positions; this holds of the two sums throughout the loop.
C10_BottomIsLastW ==
    LET trailing == {p \in Positions : p > Len(cells) - bottom_size}
    IN  /\ pc = "ratio_loop" =>
              /\ cell_counter = idx
              /\ md_bottom_cells = MdLinesIn(trailing \cap 1..(idx - 1))
              /\ md_first_cells = MdLinesIn((Positions \ trailing) \cap 1..(idx - 1))
        /\ (HasReturned("bottomMarkdownLinesRatio")
               /\ returned["bottomMarkdownLinesRatio"] # None) =>
              returned["bottomMarkdownLinesRatio"]
                  = Some(RatioOf(MdLinesIn(trailing),
                                 MdLinesIn(Positions \ trailing)))

\* One markdown line in the leading part and two in the last position: 2/3.
C10_Witness ==
    /\ pc = "done"
    /\ bottom_size = 1
    /\ Len(cells) = 5
    /\ cells[1].cell_type = "markdown" /\ SplitLen(cells[1].source) = 1
    /\ cells[5].cell_type = "markdown" /\ SplitLen(cells[5].source) = 2
    /\ \A p \in 2..4 : cells[p].cell_type # "markdown"
    /\ returned["bottomMarkdownLinesRatio"] = Some([num |-> 2, den |-> 3])

LastPositions(w) == {p \in Positions : p > Len(cells) - w}

\* C19 as stated: every cell _extract_bottom_cells_of_code collects lies
\* among the last bottom_size cells of the notebook, so the two counts are
\* those of the code cells at these positions.
C19_Original ==
    /\ \A k \in 1..Len(cell_list) : cell_list[k] \in LastPositions(bottom_size)
    /\ (pc = "done" /\ returned["bottomNonExecutedCells"] # None) =>
          /\ returned["bottomNonExecutedCells"]
                 = Some(Cardinality({p \in LastPositions(bottom_size) :
                                         NonExecutedAt(p)}))
          /\ returned["bottomEmptyCells"]
                 = Some(Cardinality({p \in LastPositions(bottom_size) :
                                         EmptyAt(p)}))

\* C22: a bottom count that is a number does not exceed the count of the
\* whole notebook, the two bottom counts together do not exceed
\* max(bottom_size, 0), and for bottom_size <= 0 the window is empty and
\* both bottom counts are 0.
C22_BottomWithinWhole ==
    /\ bottom_size <= 0 => cell_list = <<>>
    /\ (HasReturned("bottomNonExecutedCells")
           /\ returned["bottomNonExecutedCells"] # None) =>
          /\ returned["bottomNonExecutedCells"][1] <= count_non_executed_cells(cells)
          /\ returned["bottomNonExecutedCells"][1] <= Max(bottom_size, 0)
    /\ (HasReturned("bottomEmptyCells") /\ returned["bottomEmptyCells"] # None) =>
          /\ returned["bottomEmptyCells"][1] <= count_empty_cells(cells)
          /\ returned["bottomNonExecutedCells"][1] + returned["bottomEmptyCells"][1]
                 <= Max(bottom_size, 0)
          /\ bottom_size <= 0 =>
                 /\ returned["bottomNonExecutedCells"] = Some(0)
                 /\ returned["bottomEmptyCells"] = Some(0)

\* bottom_size 1 in a notebook with two never-run cells with text and an
\* empty one: the window is the last code cell, counted as non-executed.
C22_Witness ==
    /\ pc = "done"
    /\ bottom_size = 1
    /\ count_non_executed_cells(cells) = 2
    /\ count_empty_cells(cells) = 1
    /\ returned["bottomNonExecutedCells"] = Some(1)
    /\ returned["bottomEmptyCells"] = Some(0)

----------------------------------------------------------------------------
(* Claims on the counts of the cells never run *)

CodeOnly(cl) == SelectSeq(cl, IsCode)

\* C12: count_non_executed_cells returns the number of code cells with no
\* execution count and a non-empty source, count_empty_cells the number of
\* code cells with no execution count and an empty source; neither counts a
\* markdown or raw cell: the counts are those of the code cells alone.
C12_NeverRunCounts ==
    /\ HasReturned("nonExecutedCells") =>
          /\ returned["nonExecutedCells"]
                 = Some(Cardinality({p \in Positions : NonExecutedAt(p)}))
          /\ returned["nonExecutedCells"]
                 = Some(count_non_executed_cells(CodeOnly(cells)))
    /\ HasReturned("emptyCells") =>
          /\ returned["emptyCells"]
                 = Some(Cardinality({p \in Positions : EmptyAt(p)}))
          /\ returned["emptyCells"] = Some(count_empty_cells(CodeOnly(cells)))

\* A never-run cell with text, an empty never-run cell, an empty cell that
\* was run and an empty raw cell: one non-executed cell, one empty cell.
C12_Witness ==
    /\ pc = "done"
    /\ Len(cells) = 4
    /\ \E p \in Positions : NonExecutedAt(p)
    /\ \E p \in Positions : EmptyAt(p)
    /\ \E p \in Positions :
           EmptyCodeCell(cells[p]) /\ cells[p].execution_count # None
    /\ \E p \in Positions : cells[p].cell_type = "raw" /\ cells[p].source = <<>>
    /\ returned["nonExecutedCells"] = Some(1)
    /\ returned["emptyCells"] = Some(1)

\* Positions of the code cells with no execution count.
NeverRun == {p \in Positions : IsCode(cells[p]) /\ cells[p].execution_count = None}

\* C21: nonExecutedCells + emptyCells is the number of code cells with no
\* execution count; the cells one counter counts and those the other counts
\* share no cell and make up the never-run code cells; the sum does not
\* exceed numberOfCodeCells.
C21_NeverRunPartition ==
    /\ HasReturned("emptyCells") =>
          /\ returned["nonExecutedCells"][1] + returned["emptyCells"][1]
                 = Cardinality(NeverRun)
          /\ returned["nonExecutedCells"][1]
                 = Cardinality({p \in NeverRun : ~EmptyAt(p)})
          /\ returned["emptyCells"][1] = Cardinality({p \in NeverRun : EmptyAt(p)})
          /\ \A i \in Positions :
                 count_non_executed_cells(<<cells[i]>>)
                     + count_empty_cells(<<cells[i]>>)
                     = IF i \in NeverRun THEN 1 ELSE 0
    /\ HasReturned("numberOfCodeCells") =>
          returned["nonExecutedCells"][1] + returned["emptyCells"][1]
              <= returned["numberOfCodeCells"][1]

\* Two never-run cells with text, an empty never-run cell and a cell that
\* was run: 2 + 1 of the 4 code cells.
C21_Witness ==
    /\ pc = "done"
    /\ returned["nonExecutedCells"] = Some(2)
    /\ returned["emptyCells"] = Some(1)
    /\ returned["numberOfCodeCells"] = Some(4)

----------------------------------------------------------------------------
(* Claims on NotebookLinter *)

\* The rules that parse the script.
SyntaxKeys ==
    {"numberOfClassDefinitions", "numberOfFunctionDefinitions", "allImportsInFirstCell"}

\* C7 as stated: when the script does not parse, the analysis still ends
\* with a report, in which every rule that needs no parsing has its normal
\* value.
C7_Original ==
    (pc \in {"done", "raised"} /\ ~Parses(program)) =>
        /\ results # None
        /\ \A k \in StatsKeys :
               results[1].notebookStats[k]
                   = RuleOutcome(k, name, cells, program, options).value
        /\ \A k \in LintingKeys \ SyntaxKeys :
               results[1].lintingResults[k]
                   = RuleOutcome(k, name, cells, program, options).value

\* The counts of cells of the report.
CountKeys ==
    StatsKeys \cup {"nonExecutedCells", "emptyCells"}

\* C13: for a notebook with no cell the six counts of cells are 0,
\* linearExecutionOrder is true and the three bottom rules are None, in the
\* entries evaluated for the report and in the report itself; the bottom
\* rules are None for every bottom_size from 0 on.
C13_ZeroCells ==
    cells = <<>> =>
        /\ \A k \in CountKeys : HasReturned(k) => returned[k] = Some(0)
        /\ HasReturned("linearExecutionOrder") =>
               returned["linearExecutionOrder"] = Some(TRUE)
        /\ \A k \in BottomKeys : HasReturned(k) => returned[k] = None
        /\ \A w \in 0..Max(MaxBottomSize, options.bottom_size) :
               /\ get_bottom_md_lines_ratio(cells, w) = None
               /\ count_bottom_non_executed_cells(cells, w) = None
               /\ count_bottom_empty_cells(cells, w) = None
        /\ results # None =>
               /\ \A k \in StatsKeys : results[1].notebookStats[k] = Some(0)
               /\ \A k \in CountKeys \ StatsKeys :
                      results[1].lintingResults[k] = Some(0)
               /\ results[1].lintingResults["linearExecutionOrder"] = Some(TRUE)
               /\ \A k \in BottomKeys : results[1].lintingResults[k] = None

\* The report of a notebook with no cell and a script that parses.
C13_Witness ==
    /\ pc = "done"
    /\ cells = <<>>
    /\ results # None
    /\ results[1].notebookStats["numberOfCells"] = Some(0)
    /\ results[1].lintingResults["bottomEmptyCells"] = None

\* The keys of the report, as the code spells them.
ReportStatsKeys ==
    {"numberOfCells", "numberOfMDCells", "numberOfCodeCells", "numberOfRawCells"}

ReportLintingKeys ==
    {"linearExecutionOrder", "numberOfClassDefinitions",
     "numberOfFunctionDefinitions", "allImportsInFirstCell",
     "numberOfMarkdownLines", "numberOfMarkdownTitles",
     "bottomMarkdownLinesRatio", "nonExecutedCells", "emptyCells",
     "bottomNonExecutedCells", "bottomEmptyCells", "isTitled"}

\* The analysis has completed: self.results holds the report.
Completed == pc = "done" /\ results # None

\* C14 as stated: the report of an analysis that completes has exactly the
\* rule keys of the design, isFilenameCharsetRestricted among them.
C14_Original ==
    Completed =>
        /\ DOMAIN results[1].notebookStats = ReportStatsKeys
        /\ DOMAIN results[1].lintingResults
               = ReportLintingKeys \cup {"isFilenameCharsetRestricted"}

\* C14 as amended: the report of an analysis that completes has the name
\* of the notebook, the four counts of cells under notebookStats and the
\* thirteen rules under lintingResults, the charset rule under the key
\* isFilenameCharsetRestr; no key is in both groups; each entry is the
\* value its rule returned, and a bottom rule whose precondition fails is
\* there with the value None.
C14_ReportKeys ==
    /\ pc = "done" => results # None
    /\ results # None =>
          LET report == results[1]
          IN  /\ DOMAIN report
                     = {"notebookName", "notebookStats", "lintingResults"}
              /\ report.notebookName = Some(name)
              /\ DOMAIN report.notebookStats = ReportStatsKeys
              /\ DOMAIN report.lintingResults
                     = ReportLintingKeys \cup {"isFilenameCharsetRestr"}
              /\ \A k \in ReportStatsKeys :
                     report.notebookStats[k] = returned[k]
              /\ \A k \in ReportLintingKeys \cup {"isFilenameCharsetRestr"} :
                     report.lintingResults[k] = returned[k]
              /\ \A k \in BottomKeys :
                     ~BottomPrecondition(options.bottom_size, Len(cells)) =>
                         report.lintingResults[k] = None

\* The report of a notebook of two cells: the three bottom rules are None.
C14_Witness ==
    /\ Completed
    /\ Len(cells) = 2
    /\ \A k \in BottomKeys : results[1].lintingResults[k] = None
    /\ results[1].lintingResults["isFilenameCharsetRestr"] = Some(TRUE)

\* The values of bottom_size a caller may want the report computed with.
SuppliedBottomSizes == 0..MaxBottomSize

\* C15 as stated: whichever bottom_size the caller supplies, the three
\* bottom entries of the report are those of the bottom rules called with it.
C15_Original ==
    Completed =>
        \A w \in SuppliedBottomSizes :
            /\ results[1].lintingResults["bottomMarkdownLinesRatio"]
                   = get_bottom_md_lines_ratio(cells, w)
            /\ results[1].lintingResults["bottomNonExecutedCells"]
                   = count_bottom_non_executed_cells(cells, w)
            /\ results[1].lintingResults["bottomEmptyCells"]
                   = count_bottom_empty_cells(cells, w)

----------------------------------------------------------------------------
(* Claims on the filename rules *)

\* C16 as stated: is_filename_charset_restricted returns true exactly when
\* every character of the name is in the charset, and false for a name
\* that holds a space.
C16_Original ==
    HasReturned("isFilenameCharsetRestr") =>
        /\ returned["isFilenameCharsetRestr"] = Some(AllInCharset(name))
        /\ (\E i \in 1..Len(name) : name[i] = " ") =>
               returned["isFilenameCharsetRestr"] = Some(FALSE)

----------------------------------------------------------------------------
(* Claims on analyses one after the other *)

SameDocument(a, b) ==
    a.name = b.name /\ a.cells = b.cells /\ a.program = b.program

\* The report the rules give of the document under analysis, taken on
\* its own.
OwnReport ==
    ResultsDict([k \in Range(RuleOrder) |->
                    RuleOutcome(k, name, cells, program, DefaultOptions).value])

----------------------------------------------------------------------------
(* Claims on the markdown rules *)

\* source.split("\n"): the rows of a source.
RECURSIVE Rows(_)
Rows(src) ==
    IF \A i \in 1..Len(src) : src[i] # "\n"
    THEN <<src>>
    ELSE LET i == CHOOSE j \in 1..Len(src) :
                      src[j] = "\n" /\ \A h \in 1..(j - 1) : src[h] # "\n"
         IN  <<SubSeq(src, 1, i - 1)>> \o Rows(SubSeq(src, i + 1, Len(src)))

\* The first character of the row that is not white space is "#".
IsTitleRow(row) ==
    \E i \in 1..Len(row) :
        row[i] = "#" /\ \A h \in 1..(i - 1) : row[h] \in {" ", "\t"}

RECURSIVE MdTitleRows(_)
MdTitleRows(cl) ==
    IF cl = <<>>
    THEN 0
    ELSE (IF Head(cl).cell_type = "markdown"
          THEN Len(SelectSeq(Rows(Head(cl).source), IsTitleRow))
          ELSE 0) + MdTitleRows(Tail(cl))

\* C20 as stated: count_md_titles returns the number of rows of markdown
\* source whose first character that is not white space is "#", the rows
\* being those count_md_lines counts, so that the titles never outnumber
\* the lines.
C20_Original ==
    HasReturned("numberOfMarkdownTitles") =>
        /\ returned["numberOfMarkdownTitles"] = Some(MdTitleRows(cells))
        /\ returned["numberOfMarkdownTitles"][1]
               <= returned["numberOfMarkdownLines"][1]

====
